---- MODULE Spec2Model ----
(***************************************************************************)
(* Tax Commander: the payment-period / validation engine (calculator.py),  *)
(* the transactional ledger (db_manager.py), the command surface that      *)
(* drives them (main.py) and the settlement reconciliation (reporter.py).  *)
(*                                                                         *)
(* Money is an integer number of mills (1/1000 dollar), so that 0.009 and  *)
(* 0.02 are exact.  A date 'YYYY-MM-DD' is the integer YYYYMMDD: the       *)
(* order of the integers is the lexicographic order of the strings that    *)
(* SQLite compares.  Python None / SQL NULL is "NULL" for text fields and  *)
(* NoInstallment for the installment number.                               *)
(***************************************************************************)
EXTENDS Integers, Sequences, FiniteSets, TLC

VARIABLES
    tax_duplicate,  \* table tax_duplicate: parcel_id -> row
    transactions,   \* table transactions: sequence of rows, index = transaction_id
    change_log,     \* table change_log (committed audit entries), in log_id order
    exit_status,    \* the exit status of the last command
    closed_months,  \* history kept under SpecClosure: the <<month, year>>
                    \* close-month has been run for
    calc_call,      \* under SpecCalc: the last call of a TaxCalculator method
    calc_result,    \* under SpecCalc: what that call returned
    clock,          \* under SpecBackup: the second the last command ran in
    db_mtime,       \* under SpecBackup: the modification time of the database
                    \* file, counted in writes
    backups,        \* under SpecBackup: the files of the backups directory
    race            \* under SpecConcurrent: the two callers running at once

vars == <<tax_duplicate, transactions, change_log, exit_status, closed_months,
          calc_call, calc_result, clock, db_mtime, backups, race>>

-----------------------------------------------------------------------------
(* Bounds of the exploration *)

MaxTx == 2          \* rows in the ledger
MaxLog == 3         \* audit entries, under SpecParcel
MaxClock == 7       \* commands run, under SpecBackup

-----------------------------------------------------------------------------
(* Inputs *)

NoInstallment == 0          \* installment_num is None
Missing == "MISSING"        \* key absent from the data dict

ParcelIds == {"P1", "P2"}

\* rows of the CSV files handed to import-duplicate (sample_data.py figures):
\* P1 is on the installment plan
CsvRows ==
    { [parcel_id |-> "P1", owner_name |-> "Installment User 1",
       mailing_address |-> "1 Main St",
       face_tax_amount |-> 450000, discount_amount |-> 441000, penalty_amount |-> 495000,
       bill_issue_date |-> 20250301, is_installment_plan |-> 1] }

\* arguments of add-interim: P2 is added mid-cycle
InterimArgs ==
    { [parcel_id |-> "P2", owner_name |-> "New Build 2", mailing_address |-> "2 New Rd",
       face_tax_amount |-> 450000, discount_amount |-> 441000, penalty_amount |-> 495000,
       bill_issue_date |-> 20250301] }

\* pay: <<amount, postmark date, installment number>>
PayArgs ==
    { <<441000, 20250415, NoInstallment>>,  \* the discount amount in DISCOUNT
      <<150000, 20250415, NoInstallment>>,  \* a third of face in DISCOUNT
      <<150000, 20251215, 2>>,              \* a third of face in PENALTY, 2nd
      <<150000, 20251215, NoInstallment>>,  \* a third of face in PENALTY, 1st
      <<495000, 20251215, NoInstallment>> } \* the penalty amount in PENALTY
CheckNumbers == {"101"}
NowDates == {20251215}
CloseMonths == {<<4, 2025>>, <<12, 2025>>}
AppendDates == {20250415}
AppendBalances == {9, 10}
ExonerateAmounts == {450000}
ExonerateDates == {20250415}

\* update-parcel: --name and --address, "NULL" when the option is not given
OwnerNames == {"NULL", "Installment User 1", "New Owner"}
Addresses == {"NULL", "1 Main St", "5 Elm St"}

\* determine_period: bill issue dates (the default cycle, an interim bill, a
\* month end, a cycle running over the year end) and postmark dates around
\* the ends of their windows
IssueDates == {20250301, 20250701, 20241231, 20251101}
Postmarks ==
    {20250101, 20250227, 20250228, 20250415, 20250429, 20250430, 20250501,
     20250630, 20250701, 20250831, 20250901, 20251031, 20251101, 20251231,
     20260101, 20260228, 20260301}

\* validate_payment: parcel records (on the installment plan, not on it, and
\* a parcel billed at 0.00 on the plan), tendered amounts, postmark dates in
\* each period of the 2025-03-01 bill, and installment numbers
CalcRecords ==
    { [parcel_id |-> "P1", face_tax_amount |-> 450000, discount_amount |-> 441000,
       penalty_amount |-> 495000, bill_issue_date |-> 20250301,
       is_installment_plan |-> 1],
      [parcel_id |-> "P2", face_tax_amount |-> 450000, discount_amount |-> 441000,
       penalty_amount |-> 495000, bill_issue_date |-> 20250301,
       is_installment_plan |-> 0],
      [parcel_id |-> "P3", face_tax_amount |-> 0, discount_amount |-> 0,
       penalty_amount |-> 0, bill_issue_date |-> 20250301,
       is_installment_plan |-> 1] }
CalcAmounts ==
    {0, 150000, 165000, 440990, 441000, 441004, 450000, 495000, 500000}
CalcPostmarks == {20250415, 20250601, 20250701, 20251215}
InstallmentNums == {NoInstallment, 1, 2, 3}

-----------------------------------------------------------------------------
(* Dates *)

Year(d)  == d \div 10000
Month(d) == (d \div 100) % 100
Day(d)   == d % 100
MkDate(y, m, d) == y * 10000 + m * 100 + d

IsLeap(y) == (y % 4 = 0 /\ y % 100 # 0) \/ y % 400 = 0

DaysInMonth(y, m) ==
    IF m = 2 THEN (IF IsLeap(y) THEN 29 ELSE 28)
    ELSE IF m \in {4, 6, 9, 11} THEN 30 ELSE 31

Min(a, b) == IF a < b THEN a ELSE b

\* date + relativedelta(months=n): the day is clamped to the end of the month
AddMonths(d, n) ==
    LET k == Year(d) * 12 + (Month(d) - 1) + n
        y == k \div 12
        m == (k % 12) + 1
    IN  MkDate(y, m, Min(Day(d), DaysInMonth(y, m)))

\* date - timedelta(days=1)
MinusOneDay(d) ==
    IF Day(d) > 1 THEN d - 1
    ELSE IF Month(d) > 1
         THEN MkDate(Year(d), Month(d) - 1, DaysInMonth(Year(d), Month(d) - 1))
         ELSE MkDate(Year(d) - 1, 12, 31)

-----------------------------------------------------------------------------
(* calculator.py *)

\* mutant: the last day of each window counted to the later period
determine_period_exclusive(postmark, issue_date) ==
    LET discount_end == MinusOneDay(AddMonths(issue_date, 2))
        face_end     == MinusOneDay(AddMonths(issue_date, 4))
    IN  IF postmark < discount_end THEN "DISCOUNT"
        ELSE IF postmark < face_end THEN "FACE"
        ELSE "PENALTY"

\* determine_period(postmark_date_str, bill_issue_date_str)
determine_period(postmark, issue_date) ==
    LET discount_end == MinusOneDay(AddMonths(issue_date, 2))
        face_end     == MinusOneDay(AddMonths(issue_date, 4))
    IN  IF postmark <= discount_end THEN "DISCOUNT"
        ELSE IF postmark <= face_end THEN "FACE"
        ELSE "PENALTY"

\* mutant: nothing more expected of a parcel the ledger holds a row of
get_expected_amount_unless_on_ledger(period, duplicate_record) ==
    IF \E i \in 1..Len(transactions) :
           transactions[i].parcel_id = duplicate_record.parcel_id
    THEN 0
    ELSE IF period = "DISCOUNT" THEN duplicate_record.discount_amount
    ELSE IF period = "FACE" THEN duplicate_record.face_tax_amount
    ELSE duplicate_record.penalty_amount

\* mutant: the face amount expected in every period
get_expected_amount_face_only(period, duplicate_record) ==
    duplicate_record.face_tax_amount

get_expected_amount(period, duplicate_record) ==
    IF period = "DISCOUNT" THEN duplicate_record.discount_amount
    ELSE IF period = "FACE" THEN duplicate_record.face_tax_amount
    ELSE duplicate_record.penalty_amount

Abs(x) == IF x < 0 THEN -x ELSE x

\* round(x, 2) of an amount x in mills, x >= 0 or x < 0; the inputs used
\* never produce a tie (a last digit 5), whose result depends on the float
Round2(x) ==
    IF x >= 0 THEN 10 * ((x + 5) \div 10)
    ELSE -(10 * ((-x + 5) \div 10))

\* round(face_tax_amount / 3, 2): thirds of a mill never tie
RoundThird(face) == 10 * ((face + 15) \div 30)

\* round(expected_installment_amount * 1.10, 2)
RoundTenPercent(inst) == Round2((inst * 11) \div 10)

\* mutant: a plan assumed for every parcel
OnInstallmentPlanAlways(duplicate_record) == TRUE

\* the truth value of duplicate_record['is_installment_plan']
OnInstallmentPlan(duplicate_record) == duplicate_record.is_installment_plan # 0

\* mutant: only a call without installment number counted as the first
FirstInstallmentOnlyUnset(installment_num) == installment_num = NoInstallment

\* installment_num is None or installment_num == 1
FirstInstallment(installment_num) == installment_num \in {NoInstallment, 1}

\* mutant: the comparison of the tender with the expected amount reversed
OverpaidReversed(amount_tendered, expected_full_amount) ==
    amount_tendered < expected_full_amount

\* amount_tendered > expected_full_amount
Overpaid(amount_tendered, expected_full_amount) ==
    amount_tendered > expected_full_amount

validate_payment(duplicate_record, amount_tendered, postmark, installment_num) ==
    LET period == determine_period(postmark, duplicate_record.bill_issue_date)
        expected_full_amount == get_expected_amount(period, duplicate_record)
        expected_installment_amount == RoundThird(duplicate_record.face_tax_amount)
        expected_installment_penalty == RoundTenPercent(expected_installment_amount)
    IN  IF Round2(amount_tendered - expected_full_amount) = 0
        THEN [is_valid |-> TRUE, code |-> "ACCEPTED_FULL", diff |-> 0]
        ELSE IF OnInstallmentPlan(duplicate_record)
                /\ period = "PENALTY"
                /\ FirstInstallment(installment_num)
        THEN [is_valid |-> FALSE, code |-> "REJECTED_INSTALLMENT_LATE", diff |-> 0]
        ELSE IF OnInstallmentPlan(duplicate_record)
                /\ Round2(amount_tendered - expected_installment_amount) = 0
        THEN [is_valid |-> TRUE, code |-> "ACCEPTED_INSTALLMENT", diff |-> 0]
        ELSE IF OnInstallmentPlan(duplicate_record)
                /\ Round2(amount_tendered - expected_installment_penalty) = 0
        THEN [is_valid |-> TRUE, code |-> "ACCEPTED_INSTALLMENT_PENALTY", diff |-> 0]
        ELSE IF Overpaid(amount_tendered, expected_full_amount)
        THEN [is_valid |-> FALSE, code |-> "REJECTED_OVER",
              diff |-> Round2(amount_tendered - expected_full_amount)]
        ELSE [is_valid |-> FALSE, code |-> "REJECTED_UNDER",
              diff |-> Round2(expected_full_amount - amount_tendered)]

-----------------------------------------------------------------------------
(* schema.sql: column defaults and key assignment *)

DefaultStatus == "UNPAID"           \* tax_duplicate.status
DefaultInterim == 0                 \* tax_duplicate.is_interim
DefaultInstallmentPlan == 0         \* tax_duplicate.is_installment_plan
DefaultClosed == 0                  \* transactions.is_closed
NextTransactionId == Len(transactions) + 1  \* auto-incrementing key

-----------------------------------------------------------------------------
(* db_manager.py *)

\* one change_log row (the timestamp is left out)
LogEntry(table, record_id, action, field, old_val, new_val) ==
    [table_name |-> table, record_id |-> record_id, action_type |-> action,
     field_name |-> field, old_value |-> old_val, new_value |-> new_val]

\* update_parcel_status on the working copy (dup, log) of the two tables
update_parcel_status(dup, log, parcel_id, status) ==
    LET old_status == IF parcel_id \in DOMAIN dup THEN dup[parcel_id].status
                      ELSE "UNKNOWN"
    IN  [dup |-> IF parcel_id \in DOMAIN dup
                 THEN [dup EXCEPT ![parcel_id].status = status]
                 ELSE dup,
         log |-> IF old_status # status
                 THEN Append(log, LogEntry("tax_duplicate", parcel_id, "UPDATE",
                                           "status", old_status, status))
                 ELSE log]

\* the number of backups backup_db keeps
KeptBackups == 5

\* backup_db() in the second now of a database file last modified at mtime:
\* the directories it can leave.  copy2 names the copy after the second and
\* gives it the modification time of the database file; the files are then
\* sorted by modification time and removed from the front while more than
\* KeptBackups are left.  Files of equal modification time sort in the order
\* os.listdir gives them, which is any order.
backup_db(files, now, mtime) ==
    LET copied == {f \in files : f.name # now} \cup {[name |-> now, mtime |-> mtime]}
    IN  {kept \in SUBSET copied :
            /\ Cardinality(kept) = Min(KeptBackups, Cardinality(copied))
            /\ \A f \in copied \ kept, g \in kept : f.mtime <= g.mtime}

\* mutant: the month-closed check applied to every transaction type
MonthCheckAppliesToAll(data) == TRUE

\* whether add_transaction applies the month-closed check to the dict
MonthCheckApplies(data) == data.transaction_type # "REJECTED_PAYMENT"

\* the month-closed check of add_transaction: COUNT(*) > 0
MonthHasClosedRow(year, month) ==
    \E i \in 1..Len(transactions) :
        /\ Year(transactions[i].date_received) = year
        /\ Month(transactions[i].date_received) = month
        /\ transactions[i].is_closed = 1

\* the row add_transaction inserts for the dict data
InsertedRow(data) ==
    [transaction_id |-> NextTransactionId,
     date_received |-> data.date_received,
     postmark_date |-> data.postmark_date,
     parcel_id |-> data.parcel_id,
     transaction_type |-> IF data.transaction_type = Missing THEN "PAYMENT"
                          ELSE data.transaction_type,
     payment_method |-> data.payment_method,
     check_number |-> data.check_number,
     amount_paid |-> data.amount_paid,
     balance_remaining |-> data.balance_remaining,
     payment_period |-> data.payment_period,
     installment_number |-> data.installment_number,
     is_closed |-> 0]

\* mutant: every type but RETURN and EXONERATION treated as a payment
DerivedStatusDefaultPayment(data) ==
    IF data.transaction_type = "RETURN" THEN "RETURNED"
    ELSE IF data.transaction_type = "EXONERATION" THEN "EXONERATED"
    ELSE (IF data.balance_remaining <= 9 THEN "PAID" ELSE "PARTIAL")

\* the status add_transaction derives, "" when it derives none
DerivedStatus(data) ==
    IF data.transaction_type = "PAYMENT"
    THEN (IF data.balance_remaining <= 9 THEN "PAID" ELSE "PARTIAL")
    ELSE IF data.transaction_type = "RETURN" THEN "RETURNED"
    ELSE IF data.transaction_type = "EXONERATION" THEN "EXONERATED"
    ELSE ""

\* add_transaction(data) followed by the caller's disconnect: the tables as
\* committed, the id returned, and the change_log rows written after the
\* last commit, which the closing of the connection discards
add_transaction(data) ==
    IF /\ MonthCheckApplies(data)
       /\ MonthHasClosedRow(Year(data.date_received), Month(data.date_received))
    THEN [ok |-> FALSE, error |-> "MONTH_CLOSED", tx_id |-> 0,
          transactions |-> transactions, tax_duplicate |-> tax_duplicate,
          change_log |-> change_log, discarded |-> << >>]
    ELSE
        LET row == InsertedRow(data)
            new_status == DerivedStatus(data)
            upd == IF new_status # ""
                   THEN update_parcel_status(tax_duplicate, change_log,
                                             data.parcel_id, new_status)
                   ELSE [dup |-> tax_duplicate, log |-> change_log]
        IN  [ok |-> TRUE, error |-> "", tx_id |-> row.transaction_id,
             transactions |-> Append(transactions, row),
             tax_duplicate |-> upd.dup,
             change_log |-> upd.log,
             discarded |-> << LogEntry("transactions", ToString(row.transaction_id),
                                       "INSERT", "amount_paid", "0.00",
                                       ToString(data.amount_paid)) >>]

\* mutant: the UPDATE without its "AND is_closed = 0"
InClosingRangeAnyRow(row, month, year) ==
    LET start_date == MkDate(year, month, 1)
        end_date == IF month = 12 THEN MkDate(year + 1, 1, 1)
                    ELSE MkDate(year, month + 1, 1)
    IN  /\ row.date_received >= start_date
        /\ row.date_received < end_date

\* close_month(month, year): the rows its UPDATE matches
InClosingRange(row, month, year) ==
    LET start_date == MkDate(year, month, 1)
        end_date == IF month = 12 THEN MkDate(year + 1, 1, 1)
                    ELSE MkDate(year, month + 1, 1)
    IN  /\ row.date_received >= start_date
        /\ row.date_received < end_date
        /\ row.is_closed = 0

\* mutant: only the rows of accepted money closed
close_month_payments_only(txs, month, year) ==
    [transactions |->
        [i \in 1..Len(txs) |->
            IF /\ InClosingRange(txs[i], month, year)
               /\ txs[i].transaction_type \notin {"REJECTED_PAYMENT", "NSF_REVERSAL"}
            THEN [txs[i] EXCEPT !.is_closed = 1]
            ELSE txs[i]],
     count |-> Cardinality({i \in 1..Len(txs) :
                               /\ InClosingRange(txs[i], month, year)
                               /\ txs[i].transaction_type
                                      \notin {"REJECTED_PAYMENT", "NSF_REVERSAL"}})]

\* close_month(month, year) on the table txs: the table after, and the
\* rowcount it reports
close_month(txs, month, year) ==
    [transactions |->
        [i \in 1..Len(txs) |->
            IF InClosingRange(txs[i], month, year)
            THEN [txs[i] EXCEPT !.is_closed = 1]
            ELSE txs[i]],
     count |-> Cardinality({i \in 1..Len(txs) :
                               InClosingRange(txs[i], month, year)})]

\* mutant: the reversal carrying the original amount, not its negation
ReversalRowSameSign(row, now) ==
    [transaction_id |-> NextTransactionId,
     date_received |-> now,
     postmark_date |-> now,
     parcel_id |-> row.parcel_id,
     transaction_type |-> "NSF_REVERSAL",
     payment_method |-> "ADJUSTMENT",
     check_number |-> row.check_number,
     amount_paid |-> row.amount_paid,
     balance_remaining |-> row.amount_paid,
     payment_period |-> row.payment_period,
     installment_number |-> row.installment_number,
     is_closed |-> DefaultClosed]

\* the row process_nsf_reversal inserts for the original row
ReversalRow(row, now) ==
    [transaction_id |-> NextTransactionId,
     date_received |-> now,
     postmark_date |-> now,
     parcel_id |-> row.parcel_id,
     transaction_type |-> "NSF_REVERSAL",
     payment_method |-> "ADJUSTMENT",
     check_number |-> row.check_number,
     amount_paid |-> -row.amount_paid,
     balance_remaining |-> row.amount_paid,
     payment_period |-> row.payment_period,
     installment_number |-> row.installment_number,
     is_closed |-> DefaultClosed]

\* mutant: the reversal also voiding the original row in place
process_nsf_reversal_voiding(original_transaction_id, now) ==
    IF original_transaction_id \notin 1..Len(transactions)
    THEN [ok |-> FALSE, error |-> "TRANSACTION_NOT_FOUND",
          transactions |-> transactions, tax_duplicate |-> tax_duplicate,
          change_log |-> change_log]
    ELSE
        LET row == transactions[original_transaction_id]
            upd == update_parcel_status(tax_duplicate, change_log,
                                        row.parcel_id, "UNPAID")
        IN  [ok |-> TRUE, error |-> "",
             transactions |->
                 Append([transactions EXCEPT
                            ![original_transaction_id].transaction_type = "VOID"],
                        ReversalRow(row, now)),
             tax_duplicate |-> upd.dup,
             change_log |-> upd.log]

\* mutant: the lookup that failed leaving an audit entry behind
process_nsf_reversal_logging_unknown(original_transaction_id, now) ==
    IF original_transaction_id \notin 1..Len(transactions)
    THEN [ok |-> FALSE, error |-> "TRANSACTION_NOT_FOUND",
          transactions |-> transactions, tax_duplicate |-> tax_duplicate,
          change_log |-> Append(change_log,
                                LogEntry("transactions",
                                         ToString(original_transaction_id),
                                         "UPDATE", "status", "UNKNOWN", "UNPAID"))]
    ELSE
        LET row == transactions[original_transaction_id]
            upd == update_parcel_status(tax_duplicate, change_log,
                                        row.parcel_id, "UNPAID")
        IN  [ok |-> TRUE, error |-> "",
             transactions |-> Append(transactions, ReversalRow(row, now)),
             tax_duplicate |-> upd.dup,
             change_log |-> upd.log]

\* process_nsf_reversal(original_transaction_id) on the day now
process_nsf_reversal(original_transaction_id, now) ==
    IF original_transaction_id \notin 1..Len(transactions)
    THEN [ok |-> FALSE, error |-> "TRANSACTION_NOT_FOUND",
          transactions |-> transactions, tax_duplicate |-> tax_duplicate,
          change_log |-> change_log]
    ELSE
        LET row == transactions[original_transaction_id]
            upd == update_parcel_status(tax_duplicate, change_log,
                                        row.parcel_id, "UNPAID")
        IN  [ok |-> TRUE, error |-> "",
             transactions |-> Append(transactions, ReversalRow(row, now)),
             tax_duplicate |-> upd.dup,
             change_log |-> upd.log]

\* mutant: the INSERT replacing the parcel that exists
add_interim_parcel_replacing(parcel_data) ==
    [ok |-> TRUE, error |-> "",
     tax_duplicate |->
        [p \in DOMAIN tax_duplicate \cup {parcel_data.parcel_id} |->
            IF p = parcel_data.parcel_id
            THEN [owner_name |-> parcel_data.owner_name,
                  mailing_address |-> parcel_data.mailing_address,
                  face_tax_amount |-> parcel_data.face_tax_amount,
                  discount_amount |-> parcel_data.discount_amount,
                  penalty_amount |-> parcel_data.penalty_amount,
                  bill_issue_date |-> parcel_data.bill_issue_date,
                  is_installment_plan |-> DefaultInstallmentPlan,
                  is_interim |-> 1,
                  status |-> "UNPAID"]
            ELSE tax_duplicate[p]]]

\* add_interim_parcel(parcel_data)
add_interim_parcel(parcel_data) ==
    IF parcel_data.parcel_id \in DOMAIN tax_duplicate
    THEN [ok |-> FALSE, error |-> "PARCEL_EXISTS", tax_duplicate |-> tax_duplicate]
    ELSE [ok |-> TRUE, error |-> "",
          tax_duplicate |->
            [p \in DOMAIN tax_duplicate \cup {parcel_data.parcel_id} |->
                IF p = parcel_data.parcel_id
                THEN [owner_name |-> parcel_data.owner_name,
                      mailing_address |-> parcel_data.mailing_address,
                      face_tax_amount |-> parcel_data.face_tax_amount,
                      discount_amount |-> parcel_data.discount_amount,
                      penalty_amount |-> parcel_data.penalty_amount,
                      bill_issue_date |-> parcel_data.bill_issue_date,
                      is_installment_plan |-> DefaultInstallmentPlan,
                      is_interim |-> 1,
                      status |-> "UNPAID"]
                ELSE tax_duplicate[p]]]

\* the truth value Python gives an optional string argument
Given(value) == value \notin {"NULL", ""}

\* update_parcel_info(parcel_id, new_name, new_address)
update_parcel_info(parcel_id, new_name, new_address) ==
    IF parcel_id \notin DOMAIN tax_duplicate
    THEN [ok |-> FALSE, error |-> "PARCEL_NOT_FOUND",
          tax_duplicate |-> tax_duplicate, change_log |-> change_log]
    ELSE
        LET row == tax_duplicate[parcel_id]
            named == IF Given(new_name)
                     THEN [dup |-> [tax_duplicate EXCEPT ![parcel_id].owner_name = new_name],
                           log |-> Append(change_log,
                                          LogEntry("tax_duplicate", parcel_id, "UPDATE",
                                                   "owner_name", row.owner_name, new_name))]
                     ELSE [dup |-> tax_duplicate, log |-> change_log]
            addressed ==
                     IF Given(new_address)
                     THEN [dup |-> [named.dup EXCEPT ![parcel_id].mailing_address = new_address],
                           log |-> Append(named.log,
                                          LogEntry("tax_duplicate", parcel_id, "UPDATE",
                                                   "mailing_address", row.mailing_address,
                                                   new_address))]
                     ELSE named
        IN  [ok |-> TRUE, error |-> "",
             tax_duplicate |-> addressed.dup, change_log |-> addressed.log]

-----------------------------------------------------------------------------
(* reporter.py: generate_settlement_report, and the total of the status command *)

RECURSIVE SumOver(_, _)
\* SUM(f[x]) over the finite set S
SumOver(f, S) ==
    IF S = {} THEN 0
    ELSE LET x == CHOOSE y \in S : TRUE
         IN  f[x] + SumOver(f, S \ {x})

TxIds == 1..Len(transactions)
Parcels == DOMAIN tax_duplicate

\* rows of transactions JOIN tax_duplicate of one type and period
JoinedPayments(period) ==
    {i \in TxIds : /\ transactions[i].transaction_type = "PAYMENT"
                   /\ transactions[i].payment_period = period
                   /\ transactions[i].parcel_id \in Parcels}

dup_face == SumOver([p \in Parcels |-> tax_duplicate[p].face_tax_amount],
                    {p \in Parcels : tax_duplicate[p].is_interim = 0})
int_face == SumOver([p \in Parcels |-> tax_duplicate[p].face_tax_amount],
                    {p \in Parcels : tax_duplicate[p].is_interim = 1})
discounts_allowed ==
    SumOver([i \in TxIds |-> tax_duplicate[transactions[i].parcel_id].face_tax_amount
                             - transactions[i].amount_paid],
            JoinedPayments("DISCOUNT"))
penalties_collected ==
    SumOver([i \in TxIds |-> transactions[i].amount_paid
                             - tax_duplicate[transactions[i].parcel_id].face_tax_amount],
            JoinedPayments("PENALTY"))
ret_face == SumOver([p \in Parcels |-> tax_duplicate[p].face_tax_amount],
                    {p \in Parcels : tax_duplicate[p].status \in {"UNPAID", "RETURNED"}})
ret_pen == SumOver([p \in Parcels |-> tax_duplicate[p].penalty_amount],
                   {p \in Parcels : tax_duplicate[p].status \in {"UNPAID", "RETURNED"}})
total_accountable == dup_face + int_face + penalties_collected + ret_pen
total_cash_collected ==
    SumOver([i \in TxIds |-> transactions[i].amount_paid],
            {i \in TxIds : transactions[i].transaction_type = "PAYMENT"})
exonerations ==
    SumOver([i \in TxIds |-> transactions[i].amount_paid],
            {i \in TxIds : transactions[i].transaction_type = "EXONERATION"})
total_credits == total_cash_collected + discounts_allowed + exonerations
                 + ret_face + ret_pen
diff == total_accountable - total_credits
BooksBalanced == Abs(diff) < 20

-----------------------------------------------------------------------------
(* main.py: the commands.  Each action is one run of the command line,    *)
(* from backup and connect to disconnect and exit.                         *)

\* the keys of a transaction dict at the values data.get() gives when absent
NoData ==
    [date_received |-> 0, postmark_date |-> 0, parcel_id |-> "",
     transaction_type |-> Missing, payment_method |-> "NULL",
     check_number |-> "NULL", amount_paid |-> 0, balance_remaining |-> 0,
     payment_period |-> "NULL", installment_number |-> NoInstallment]

PaymentMethod(check) == IF check # "CASH" THEN "CHECK" ELSE "CASH"

\* the state a command leaves: the tables as committed, and its exit status
Left(dup, txs, log, status) ==
    [tax_duplicate |-> dup, transactions |-> txs, change_log |-> log,
     exit_status |-> status]

\* import-duplicate of a file holding the one row
import_duplicate(row) ==
    Left([p \in DOMAIN tax_duplicate \cup {row.parcel_id} |->
             IF p = row.parcel_id
             THEN [owner_name |-> row.owner_name,
                   mailing_address |-> row.mailing_address,
                   face_tax_amount |-> row.face_tax_amount,
                   discount_amount |-> row.discount_amount,
                   penalty_amount |-> row.penalty_amount,
                   bill_issue_date |-> row.bill_issue_date,
                   is_installment_plan |-> row.is_installment_plan,
                   is_interim |-> DefaultInterim,
                   status |-> DefaultStatus]
             ELSE tax_duplicate[p]],
         transactions, change_log, 0)

\* the dict pay records for a rejected tender
rejected_tx_data(parcel_id, amount, date, check) ==
    [NoData EXCEPT !.date_received = date,
                   !.postmark_date = date,
                   !.parcel_id = parcel_id,
                   !.amount_paid = amount,
                   !.check_number = check,
                   !.payment_method = PaymentMethod(check),
                   !.transaction_type = "REJECTED_PAYMENT",
                   !.balance_remaining = tax_duplicate[parcel_id].face_tax_amount]

\* mutant: the accepted tender recorded without its payment period
tx_data_no_period(parcel_id, amount, date, check, installment_num) ==
    [NoData EXCEPT !.date_received = date,
                   !.postmark_date = date,
                   !.parcel_id = parcel_id,
                   !.amount_paid = amount,
                   !.check_number = check,
                   !.payment_method = PaymentMethod(check),
                   !.installment_number = installment_num]

\* the dict pay records for an accepted tender
tx_data(parcel_id, amount, date, check, installment_num) ==
    [NoData EXCEPT !.date_received = date,
                   !.postmark_date = date,
                   !.parcel_id = parcel_id,
                   !.amount_paid = amount,
                   !.check_number = check,
                   !.payment_method = PaymentMethod(check),
                   !.payment_period =
                       determine_period(date, tax_duplicate[parcel_id].bill_issue_date),
                   !.installment_number = installment_num]

\* pay --parcel --amount --date --check --installment-num
pay(parcel_id, amount, date, check, installment_num) ==
    IF parcel_id \notin DOMAIN tax_duplicate
    THEN Left(tax_duplicate, transactions, change_log, 1)
    ELSE
        LET v == validate_payment(tax_duplicate[parcel_id], amount, date,
                                  installment_num)
            r == IF ~v.is_valid
                 THEN add_transaction(rejected_tx_data(parcel_id, amount, date, check))
                 ELSE add_transaction(tx_data(parcel_id, amount, date, check,
                                              installment_num))
        IN  Left(r.tax_duplicate, r.transactions, r.change_log,
                 IF ~v.is_valid THEN 1 ELSE 0)

\* the dict exonerate records
exonerate_tx_data(parcel_id, amount, date) ==
    [NoData EXCEPT !.date_received = date,
                   !.postmark_date = date,
                   !.parcel_id = parcel_id,
                   !.transaction_type = "EXONERATION",
                   !.payment_method = "NONE",
                   !.amount_paid = amount]

\* exonerate --parcel --amount --date
exonerate(parcel_id, amount, date) ==
    LET r == add_transaction(exonerate_tx_data(parcel_id, amount, date))
    IN  Left(r.tax_duplicate, r.transactions, r.change_log, 0)

\* a direct caller of DBManager.add_transaction: connect, add, disconnect
record_transaction(data) ==
    LET r == add_transaction(data)
    IN  Left(r.tax_duplicate, r.transactions, r.change_log, 0)

\* close-month --month --year
close_month_command(month, year) ==
    Left(tax_duplicate, close_month(transactions, month, year).transactions,
         change_log, 0)

\* nsf <tx_id>, run on the day now
nsf(tx_id, now) ==
    LET r == process_nsf_reversal(tx_id, now)
    IN  Left(r.tax_duplicate, r.transactions, r.change_log, 0)

\* add-interim
add_interim(args) ==
    Left(add_interim_parcel(args).tax_duplicate, transactions, change_log, 0)

\* update-parcel --parcel --name --address
update_parcel(parcel_id, name, address) ==
    IF ~Given(name) /\ ~Given(address)
    THEN Left(tax_duplicate, transactions, change_log, 1)
    ELSE LET r == update_parcel_info(parcel_id, name, address)
         IN  Left(r.tax_duplicate, transactions, r.change_log, 0)

-----------------------------------------------------------------------------
(* The state machine: one action per command *)

\* the command's result becomes the state; the ledger is explored up to MaxTx rows
Committed(r) ==
    /\ Len(r.transactions) <= MaxTx
    /\ tax_duplicate' = r.tax_duplicate
    /\ transactions' = r.transactions
    /\ change_log' = r.change_log
    /\ exit_status' = r.exit_status

\* a command run on its own, its backup left out of the exploration (no
\* command reads the backups directory)
Run(r) ==
    /\ Committed(r)
    /\ UNCHANGED <<calc_call, calc_result, clock, db_mtime, backups, race>>

\* no call of the calculator made yet
NoCall == [op |-> "none"]

\* no two callers running at once
NoRace == [phase |-> "idle"]

Init ==
    /\ tax_duplicate = << >>
    /\ transactions = << >>
    /\ change_log = << >>
    /\ exit_status = 0
    /\ closed_months = {}
    /\ calc_call = NoCall
    /\ calc_result = ""
    /\ clock = 0
    /\ db_mtime = 0
    /\ backups = {}
    /\ race = NoRace

ImportDuplicate(row) ==
    Run(import_duplicate(row)) /\ UNCHANGED closed_months

Pay(parcel_id, amount, date, check, installment_num) ==
    Run(pay(parcel_id, amount, date, check, installment_num))
    /\ UNCHANGED closed_months

Exonerate(parcel_id, amount, date) ==
    Run(exonerate(parcel_id, amount, date)) /\ UNCHANGED closed_months

RecordTransaction(data) ==
    Run(record_transaction(data)) /\ UNCHANGED closed_months

CloseMonth(month, year) ==
    Run(close_month_command(month, year)) /\ UNCHANGED closed_months

\* close-month, with the month it was run for remembered
CloseMonthRecorded(month, year) ==
    /\ Run(close_month_command(month, year))
    /\ closed_months' = closed_months \cup {<<month, year>>}

Nsf(tx_id, now) ==
    Run(nsf(tx_id, now)) /\ UNCHANGED closed_months

AddInterim(args) ==
    Run(add_interim(args)) /\ UNCHANGED closed_months

\* the dicts direct callers hand to add_transaction
AppendData ==
    { [NoData EXCEPT !.date_received = d, !.postmark_date = d,
                     !.parcel_id = p, !.transaction_type = "RETURN"]
        : p \in ParcelIds, d \in AppendDates }
    \cup
    { [NoData EXCEPT !.date_received = d, !.postmark_date = d,
                     !.parcel_id = p, !.transaction_type = "PAYMENT",
                     !.payment_method = "CASH", !.check_number = "CASH",
                     !.amount_paid = 150000, !.balance_remaining = b,
                     !.payment_period = "FACE"]
        : p \in {"P1"}, d \in AppendDates, b \in AppendBalances }

Next ==
    \/ \E row \in CsvRows : ImportDuplicate(row)
    \/ \E p \in ParcelIds, a \in PayArgs, c \in CheckNumbers :
         Pay(p, a[1], a[2], c, a[3])
    \/ \E p \in ParcelIds, a \in ExonerateAmounts, d \in ExonerateDates :
         Exonerate(p, a, d)
    \/ \E data \in AppendData : RecordTransaction(data)
    \/ \E my \in CloseMonths : CloseMonth(my[1], my[2])
    \/ \E t \in 1..(Len(transactions) + 1), now \in NowDates : Nsf(t, now)
    \/ \E args \in InterimArgs : AddInterim(args)

Spec == Init /\ [][Next]_vars

\* the same commands, with the history of close-month kept
NextClosure ==
    \/ \E row \in CsvRows : ImportDuplicate(row)
    \/ \E p \in ParcelIds, a \in PayArgs, c \in CheckNumbers :
         Pay(p, a[1], a[2], c, a[3])
    \/ \E p \in ParcelIds, a \in ExonerateAmounts, d \in ExonerateDates :
         Exonerate(p, a, d)
    \/ \E data \in AppendData : RecordTransaction(data)
    \/ \E my \in CloseMonths : CloseMonthRecorded(my[1], my[2])
    \/ \E t \in 1..(Len(transactions) + 1), now \in NowDates : Nsf(t, now)
    \/ \E args \in InterimArgs : AddInterim(args)

SpecClosure == Init /\ [][NextClosure]_vars

\* the tables and the command state, which the calculator never touches
store == <<tax_duplicate, transactions, change_log, exit_status, closed_months,
           clock, db_mtime, backups, race>>

\* one call of TaxCalculator.determine_period, made when the caller is
\* done with the result of the call before
DeterminePeriod(postmark, issue_date) ==
    /\ calc_call = NoCall
    /\ calc_call' = [op |-> "determine_period", postmark |-> postmark,
                     issue_date |-> issue_date]
    /\ calc_result' = determine_period(postmark, issue_date)
    /\ UNCHANGED store

\* one call of TaxCalculator.validate_payment
ValidatePayment(duplicate_record, amount_tendered, postmark, installment_num) ==
    /\ calc_call = NoCall
    /\ calc_call' = [op |-> "validate_payment",
                     duplicate_record |-> duplicate_record,
                     amount_tendered |-> amount_tendered,
                     postmark |-> postmark,
                     installment_num |-> installment_num]
    /\ calc_result' = validate_payment(duplicate_record, amount_tendered,
                                       postmark, installment_num)
    /\ UNCHANGED store

\* the caller is done with the result
ResultUsed ==
    /\ calc_call # NoCall
    /\ calc_call' = NoCall
    /\ calc_result' = ""
    /\ UNCHANGED store

\* the calculator called on inputs of its own, between commands that change
\* the tables
NextCalc ==
    \/ \E d \in Postmarks, i \in IssueDates : DeterminePeriod(d, i)
    \/ \E rec \in CalcRecords, a \in CalcAmounts, d \in CalcPostmarks,
          n \in InstallmentNums : ValidatePayment(rec, a, d, n)
    \/ ResultUsed
    \/ \E row \in CsvRows : ImportDuplicate(row)
    \/ \E p \in ParcelIds, a \in ExonerateAmounts, d \in ExonerateDates :
         Exonerate(p, a, d)

SpecCalc == Init /\ [][NextCalc]_vars

UpdateParcel(parcel_id, name, address) ==
    /\ Len(update_parcel(parcel_id, name, address).change_log) <= MaxLog
    /\ Run(update_parcel(parcel_id, name, address))
    /\ UNCHANGED closed_months

\* the commands that change the parcel table
NextParcel ==
    \/ \E row \in CsvRows : ImportDuplicate(row)
    \/ \E args \in InterimArgs : AddInterim(args)
    \/ \E p \in ParcelIds, a \in ExonerateAmounts, d \in ExonerateDates :
         Exonerate(p, a, d)
    \/ \E p \in ParcelIds, name \in OwnerNames, address \in Addresses :
         UpdateParcel(p, name, address)

SpecParcel == Init /\ [][NextParcel]_vars

\* two callers connect at once: one to append the dict data, one to close
\* the month; before is what the tables held then
StartCallers(data, month, year) ==
    /\ race = NoRace
    /\ race' = [phase |-> "running", data |-> data, month |-> month, year |-> year,
                append |-> "connected", close |-> "connected",
                before |-> [tax_duplicate |-> tax_duplicate,
                            transactions |-> transactions,
                            change_log |-> change_log]]
    /\ UNCHANGED <<tax_duplicate, transactions, change_log, exit_status,
                   closed_months, calc_call, calc_result, clock, db_mtime, backups>>

\* add_transaction, lines 107-117: the SELECT of the month-closed check, run
\* outside any transaction (sqlite3 opens one before the INSERT only)
AppendCheck ==
    /\ race.phase = "running"
    /\ race.append = "connected"
    /\ race' = [race EXCEPT !.append =
                    IF /\ MonthCheckApplies(race.data)
                       /\ MonthHasClosedRow(Year(race.data.date_received),
                                            Month(race.data.date_received))
                    THEN "failed" ELSE "checked"]
    /\ UNCHANGED <<tax_duplicate, transactions, change_log, exit_status,
                   closed_months, calc_call, calc_result, clock, db_mtime, backups>>

\* add_transaction, lines 119-160: the INSERT, the status and the commit, in
\* one transaction of the database
AppendInsert ==
    /\ race.phase = "running"
    /\ race.append = "checked"
    /\ Len(transactions) < MaxTx
    /\ LET new_status == DerivedStatus(race.data)
           upd == IF new_status # ""
                  THEN update_parcel_status(tax_duplicate, change_log,
                                            race.data.parcel_id, new_status)
                  ELSE [dup |-> tax_duplicate, log |-> change_log]
       IN  /\ transactions' = Append(transactions, InsertedRow(race.data))
           /\ tax_duplicate' = upd.dup
           /\ change_log' = upd.log
    /\ race' = [race EXCEPT !.append = "done"]
    /\ UNCHANGED <<exit_status, closed_months, calc_call, calc_result,
                   clock, db_mtime, backups>>

\* close_month of the second caller: the UPDATE and its commit
CloseStep ==
    /\ race.phase = "running"
    /\ race.close = "connected"
    /\ transactions' = close_month(transactions, race.month, race.year).transactions
    /\ race' = [race EXCEPT !.close = "done"]
    /\ UNCHANGED <<tax_duplicate, change_log, exit_status, closed_months,
                   calc_call, calc_result, clock, db_mtime, backups>>

\* both callers disconnect
EndCallers ==
    /\ race.phase = "running"
    /\ race.append \in {"done", "failed"}
    /\ race.close = "done"
    /\ race' = NoRace
    /\ UNCHANGED <<tax_duplicate, transactions, change_log, exit_status,
                   closed_months, calc_call, calc_result, clock, db_mtime, backups>>

\* the dicts the concurrent caller appends: a PAYMENT dated in the month
\* the other caller closes
RaceData == {data \in AppendData : data.transaction_type = "PAYMENT"}
RaceMonths == {<<4, 2025>>}

\* commands run one at a time, and two callers run at once
NextConcurrent ==
    \/ \E row \in CsvRows : race = NoRace /\ ImportDuplicate(row)
    \/ \E p \in ParcelIds, a \in PayArgs, c \in CheckNumbers :
         race = NoRace /\ Pay(p, a[1], a[2], c, a[3])
    \/ \E data \in RaceData, my \in RaceMonths : StartCallers(data, my[1], my[2])
    \/ AppendCheck
    \/ AppendInsert
    \/ CloseStep
    \/ EndCallers

SpecConcurrent == Init /\ [][NextConcurrent]_vars

\* a command from its backup to its exit, run in a second of its own;
\* wrote tells whether it wrote to the database file
BackedUp(r, wrote) ==
    /\ clock < MaxClock
    /\ clock' = clock + 1
    /\ backups' \in backup_db(backups, clock + 1, db_mtime)
    /\ Committed(r)
    /\ db_mtime' = IF wrote THEN db_mtime + 1 ELSE db_mtime

BackupAndImportDuplicate(row) ==
    /\ BackedUp(import_duplicate(row), TRUE)
    /\ UNCHANGED <<closed_months, calc_call, calc_result, race>>

BackupAndExonerate(parcel_id, amount, date) ==
    /\ BackedUp(exonerate(parcel_id, amount, date),
                add_transaction(exonerate_tx_data(parcel_id, amount, date)).ok)
    /\ UNCHANGED <<closed_months, calc_call, calc_result, race>>

BackupAndNsf(tx_id, now) ==
    /\ BackedUp(nsf(tx_id, now), process_nsf_reversal(tx_id, now).ok)
    /\ UNCHANGED <<closed_months, calc_call, calc_result, race>>

\* commands with their backups
NextBackup ==
    \/ \E row \in CsvRows : BackupAndImportDuplicate(row)
    \/ \E p \in ParcelIds, a \in ExonerateAmounts, d \in ExonerateDates :
         BackupAndExonerate(p, a, d)
    \/ \E t \in 1..(Len(transactions) + 1), now \in NowDates : BackupAndNsf(t, now)

SpecBackup == Init /\ [][NextBackup]_vars

-----------------------------------------------------------------------------
(* Properties *)

MonthOf(row) == <<Month(row.date_received), Year(row.date_received)>>

\* the rows a step inserts
NewRows == {transactions'[i] : i \in (Len(transactions) + 1)..Len(transactions')}

\* C1: after every step of any sequence of import, interim-add, pay,
\* exonerate, return and NSF-reversal operations the settlement report finds
\* the books balanced, |charges - credits| < 0.02.  Stated for the ledgers
\* whose rows all reference a parcel of the duplicate.
C1_BooksBalanced ==
    (\A i \in TxIds : transactions[i].parcel_id \in Parcels) => BooksBalanced

\* C2: once close-month has run for a month, no later step appends a row
\* other than a REJECTED_PAYMENT dated in that month (an NSF reversal is not
\* an append), whether or not the month held a row when it was closed.
\* Stated for the rows of existing parcels.
C2_ClosedMonthRefusesAppend ==
    [][\A row \in NewRows :
          ( /\ row.transaction_type \notin {"REJECTED_PAYMENT", "NSF_REVERSAL"}
            /\ row.parcel_id \in Parcels )
          => MonthOf(row) \notin closed_months]_vars

\* the pay runs of the explored inputs on existing parcels
PayRuns ==
    {[parcel_id |-> p, amount |-> a[1], date |-> a[2], installment_num |-> a[3],
      check |-> c] : p \in Parcels, a \in PayArgs, c \in CheckNumbers}
Valid(run) ==
    validate_payment(tax_duplicate[run.parcel_id], run.amount, run.date,
                     run.installment_num)
PayOf(run) == pay(run.parcel_id, run.amount, run.date, run.check, run.installment_num)

\* r.transactions is the ledger with exactly one row more
OneRowMore(r) ==
    /\ Len(r.transactions) = Len(transactions) + 1
    /\ SubSeq(r.transactions, 1, Len(transactions)) = transactions
LastRow(txs) == txs[Len(txs)]

\* C3: in every reachable state, also when the month of the postmark date
\* holds closed rows, a pay run whose validation rejects the tender inserts
\* its REJECTED_PAYMENT row: the closed-month check is not applied to it.
C3_RejectedAlwaysRecorded ==
    \A run \in PayRuns :
        ~Valid(run).is_valid
        => LET r == PayOf(run)
           IN  /\ OneRowMore(r)
               /\ LastRow(r.transactions).transaction_type = "REJECTED_PAYMENT"
               /\ LastRow(r.transactions).date_received = run.date

\* C3 witness: an open REJECTED_PAYMENT row recorded after an earlier row of
\* its month was closed.
C3_Witness ==
    \E i, j \in 1..Len(transactions) :
        /\ i < j
        /\ transactions[i].is_closed = 1
        /\ transactions[j].is_closed = 0
        /\ transactions[j].transaction_type = "REJECTED_PAYMENT"
        /\ MonthOf(transactions[j]) = MonthOf(transactions[i])

\* C4: a pay run on an existing parcel whose validation rejects the tender
\* persists exactly one new row, a REJECTED_PAYMENT of that parcel carrying
\* the tendered amount (so no PAYMENT row), leaves every parcel's status, and
\* the whole duplicate, as it was, and exits with status 1.
C4_RejectionRecordedOnly ==
    \A run \in PayRuns :
        ~Valid(run).is_valid
        => LET r == PayOf(run)
               new == LastRow(r.transactions)
           IN  /\ OneRowMore(r)
               /\ new.transaction_type = "REJECTED_PAYMENT"
               /\ new.parcel_id = run.parcel_id
               /\ new.amount_paid = run.amount
               /\ r.tax_duplicate = tax_duplicate
               /\ r.exit_status = 1

\* C4 witness: a pay run has just exited with status 1 leaving a
\* REJECTED_PAYMENT row for a parcel whose status is not the default.
C4_Witness ==
    /\ exit_status = 1
    /\ Len(transactions) > 1
    /\ LastRow(transactions).transaction_type = "REJECTED_PAYMENT"
    /\ LastRow(transactions).parcel_id \in Parcels
    /\ tax_duplicate[LastRow(transactions).parcel_id].status = "RETURNED"

\* the status the append of the row is specified to give a parcel at status old
StatusFromType(row, old) ==
    IF row.transaction_type = "PAYMENT"
    THEN (IF row.balance_remaining <= 9 THEN "PAID" ELSE "PARTIAL")
    ELSE IF row.transaction_type = "RETURN" THEN "RETURNED"
    ELSE IF row.transaction_type = "EXONERATION" THEN "EXONERATED"
    ELSE old

\* C5: every step that appends a row (an NSF reversal is not an append) for a
\* parcel of the duplicate leaves that parcel at the status the row's type
\* gives (PAYMENT: PAID when balance_remaining <= 0.009, else PARTIAL;
\* RETURN: RETURNED; EXONERATION: EXONERATED) and every other parcel's status
\* unchanged.
C5_StatusFromType ==
    [][\A row \in NewRows :
          ( /\ row.transaction_type # "NSF_REVERSAL"
            /\ row.parcel_id \in Parcels )
          => \A p \in Parcels :
                tax_duplicate'[p].status =
                    IF p = row.parcel_id
                    THEN StatusFromType(row, tax_duplicate[p].status)
                    ELSE tax_duplicate[p].status]_vars

\* the step taken is the pay run
IsPayStep(run) ==
    /\ tax_duplicate' = PayOf(run).tax_duplicate
    /\ transactions' = PayOf(run).transactions
    /\ change_log' = PayOf(run).change_log
    /\ exit_status' = PayOf(run).exit_status

\* the accepted pay run is the only or the final payment of the obligation
OnlyOrFinalPayment(run) ==
    \/ Valid(run).code = "ACCEPTED_FULL"
    \/ run.installment_num = 3

\* C6: a pay run that is accepted and recorded leaves the parcel PAID when it
\* is the only or final payment (ACCEPTED_FULL, or installment 3) and PARTIAL
\* otherwise (a first or second installment).
C6_PaidOnlyWhenFinal ==
    [][\A run \in PayRuns :
          ( /\ Valid(run).is_valid
            /\ OneRowMore(PayOf(run))
            /\ IsPayStep(run) )
          => tax_duplicate'[run.parcel_id].status =
                IF OnlyOrFinalPayment(run) THEN "PAID" ELSE "PARTIAL"]_vars

\* C7: NSF reversal of any row T of the ledger inserts exactly one row, of
\* type NSF_REVERSAL with amount -T.amount, balance_remaining T.amount and
\* T's parcel, check number, payment period and installment number, leaves T
\* and every other row unchanged, and leaves T's parcel (when the duplicate
\* holds it) at UNPAID and nothing else of the duplicate changed.
C7_NsfReversal ==
    \A t \in TxIds, now \in NowDates :
        LET T == transactions[t]
            r == nsf(t, now)
            new == LastRow(r.transactions)
        IN  /\ OneRowMore(r)
            /\ new.transaction_type = "NSF_REVERSAL"
            /\ new.amount_paid = -T.amount_paid
            /\ new.balance_remaining = T.amount_paid
            /\ new.parcel_id = T.parcel_id
            /\ new.check_number = T.check_number
            /\ new.payment_period = T.payment_period
            /\ new.installment_number = T.installment_number
            /\ r.tax_duplicate =
                  IF T.parcel_id \in Parcels
                  THEN [tax_duplicate EXCEPT ![T.parcel_id].status = "UNPAID"]
                  ELSE tax_duplicate

\* C7 witness: the last row reverses an earlier row of non-zero amount, and
\* the audit trail ends with its parcel going from PAID to UNPAID.
C7_Witness ==
    /\ Len(change_log) > 0
    /\ change_log[Len(change_log)].old_value = "PAID"
    /\ change_log[Len(change_log)].new_value = "UNPAID"
    /\ \E t \in TxIds :
          /\ t < Len(transactions)
          /\ transactions[t].amount_paid > 0
          /\ LastRow(transactions).transaction_type = "NSF_REVERSAL"
          /\ LastRow(transactions).amount_paid = -transactions[t].amount_paid
          /\ tax_duplicate[transactions[t].parcel_id].status = "UNPAID"

\* C8: a step that reverses a PAYMENT row T lowers the total cash collected
\* by T's amount, so that T and its reversal together contribute 0 to it.
C8_ReversalNetsToZero ==
    [][\A t \in TxIds :
          ( /\ transactions[t].transaction_type = "PAYMENT"
            /\ Len(transactions') = Len(transactions) + 1
            /\ LastRow(transactions').transaction_type = "NSF_REVERSAL"
            /\ LastRow(transactions') =
                   ReversalRow(transactions[t], LastRow(transactions').date_received) )
          => total_cash_collected' = total_cash_collected - transactions[t].amount_paid]_vars

\* C9: in every reachable state, close-month run twice in a row for the same
\* month closes no row the second time and leaves the ledger as the first run
\* left it; a run of close-month changes neither a parcel nor the audit trail.
C9_CloseIdempotent ==
    \A my \in CloseMonths :
        LET first == close_month_command(my[1], my[2])
            again == close_month(first.transactions, my[1], my[2])
        IN  /\ again.count = 0
            /\ again.transactions = first.transactions
            /\ first.tax_duplicate = tax_duplicate
            /\ first.change_log = change_log

\* C9 witness: a month of the ledger has been closed, a later month still
\* holds an open row, and closing the first month again finds no row.
C9_Witness ==
    \E i, j \in TxIds :
        /\ transactions[i].is_closed = 1
        /\ transactions[j].is_closed = 0
        /\ MonthOf(transactions[i]) # MonthOf(transactions[j])
        /\ close_month(transactions, Month(transactions[i].date_received),
                       Year(transactions[i].date_received)).count = 0

\* the row with its closed flag left out
Unflagged(row) == [row EXCEPT !.is_closed = 0]

\* C10: no step deletes a row or changes a field of an existing row other
\* than is_closed, is_closed never goes from 1 to 0, and every inserted row
\* takes an id greater than that of every row before it.
C10_AppendOnly ==
    [][ /\ Len(transactions') >= Len(transactions)
        /\ \A i \in TxIds :
              /\ Unflagged(transactions'[i]) = Unflagged(transactions[i])
              /\ transactions[i].is_closed = 1 => transactions'[i].is_closed = 1
        /\ \A row \in NewRows :
              \A i \in TxIds : row.transaction_id > transactions[i].transaction_id
      ]_vars

\* C10 witness: a closed row followed by a reversal row of a greater id.
C10_Witness ==
    \E i, j \in TxIds :
        /\ i < j
        /\ transactions[i].is_closed = 1
        /\ transactions[j].transaction_type = "NSF_REVERSAL"
        /\ transactions[j].transaction_id > transactions[i].transaction_id

\* the audit entries a step persists
NewEntries == {k \in (Len(change_log) + 1)..Len(change_log') : TRUE}

\* the audit entry k of log records the insert of the row
IsInsertEntry(log, k, row) ==
    /\ log[k].table_name = "transactions"
    /\ log[k].record_id = ToString(row.transaction_id)
    /\ log[k].action_type = "INSERT"

\* C11: every step that appends a row (an NSF reversal is not an append)
\* for a parcel of the duplicate commits the row together with the status
\* its type derives and with the audit entry of the insert: the state it
\* leaves never holds the row without the one or the other.
C11_AppendAtomic ==
    [][\A row \in NewRows :
          ( /\ row.transaction_type # "NSF_REVERSAL"
            /\ row.parcel_id \in Parcels )
          => /\ tax_duplicate'[row.parcel_id].status =
                    StatusFromType(row, tax_duplicate[row.parcel_id].status)
             /\ \E k \in NewEntries : IsInsertEntry(change_log', k, row)]_vars

\* the audited fields of the parcels a step changes
AuditedFields == {"status", "owner_name", "mailing_address"}
ChangedFields ==
    {pf \in (Parcels \cap DOMAIN tax_duplicate') \X AuditedFields :
        tax_duplicate'[pf[1]][pf[2]] # tax_duplicate[pf[1]][pf[2]]}

\* the audit entry k of log records the change of the field pf of a parcel
IsChangeEntry(log, k, pf) ==
    /\ log[k].table_name = "tax_duplicate"
    /\ log[k].record_id = pf[1]
    /\ log[k].field_name = pf[2]
    /\ log[k].old_value = tax_duplicate[pf[1]][pf[2]]
    /\ log[k].new_value = tax_duplicate'[pf[1]][pf[2]]

\* C12: every step persists exactly one audit entry, with the old and the
\* new value, for each status, owner_name or mailing_address it changes, and
\* exactly one for each transaction it inserts, re-import included; the
\* audit log itself only grows.
C12_EveryChangeAudited ==
    [][ /\ SubSeq(change_log', 1, Len(change_log)) = change_log
        /\ \A pf \in ChangedFields :
              Cardinality({k \in NewEntries : IsChangeEntry(change_log', k, pf)}) = 1
        /\ \A row \in NewRows :
              Cardinality({k \in NewEntries : IsInsertEntry(change_log', k, row)}) = 1
      ]_vars

\* the enumerated transitions of a parcel's status: old to new by the row
EnumeratedTransition(old, new, row) ==
    \/ /\ row.transaction_type = "PAYMENT"
       /\ old \in {"UNPAID", "PARTIAL"}
       /\ new \in {"PARTIAL", "PAID"}
    \/ /\ row.transaction_type = "RETURN"
       /\ old \in {"UNPAID", "PARTIAL"}
       /\ new = "RETURNED"
    \/ /\ row.transaction_type = "EXONERATION"
       /\ old \in {"UNPAID", "PARTIAL"}
       /\ new = "EXONERATED"
    \/ /\ row.transaction_type = "NSF_REVERSAL"
       /\ new = "UNPAID"

\* C13: a step that inserts a row for a parcel changes that parcel's status
\* only along an enumerated transition: PAYMENT, RETURN and EXONERATION move
\* UNPAID or PARTIAL only, so a PAID, RETURNED or EXONERATED parcel keeps its
\* status under them; an NSF reversal moves any status to UNPAID.
C13_EnumeratedTransitionsOnly ==
    [][\A row \in NewRows :
          row.parcel_id \in Parcels
          => \/ tax_duplicate'[row.parcel_id].status =
                    tax_duplicate[row.parcel_id].status
             \/ EnumeratedTransition(tax_duplicate[row.parcel_id].status,
                                     tax_duplicate'[row.parcel_id].status, row)]_vars

\* C14: a pay run on an existing parcel whose validation accepts the tender,
\* dated in a month that holds no closed row, records exactly one row: a
\* PAYMENT of that parcel with the tendered amount and the payment period
\* determine_period gives for the postmark date and the parcel's issue date;
\* it exits with status 0.
C14_AcceptedPayRecorded ==
    \A run \in PayRuns :
        ( /\ Valid(run).is_valid
          /\ ~MonthHasClosedRow(Year(run.date), Month(run.date)) )
        => LET r == PayOf(run)
               new == LastRow(r.transactions)
           IN  /\ OneRowMore(r)
               /\ new.transaction_type = "PAYMENT"
               /\ new.parcel_id = run.parcel_id
               /\ new.amount_paid = run.amount
               /\ new.payment_period \in {"DISCOUNT", "FACE", "PENALTY"}
               /\ new.payment_period =
                      determine_period(run.date,
                                       tax_duplicate[run.parcel_id].bill_issue_date)
               /\ r.exit_status = 0

\* C14 witness: two accepted payments of one parcel are on the ledger, one
\* recorded in the DISCOUNT and one in the PENALTY period, after a pay run
\* that exited with status 0.
C14_Witness ==
    /\ exit_status = 0
    /\ \E i, j \in TxIds :
          /\ i < j
          /\ transactions[i].transaction_type = "PAYMENT"
          /\ transactions[j].transaction_type = "PAYMENT"
          /\ transactions[i].payment_method = "CHECK"
          /\ transactions[j].payment_method = "CHECK"
          /\ transactions[i].parcel_id = transactions[j].parcel_id
          /\ transactions[i].payment_period = "DISCOUNT"
          /\ transactions[j].payment_period = "PENALTY"

\* the periods in time order
PeriodRank(period) ==
    IF period = "DISCOUNT" THEN 1 ELSE IF period = "FACE" THEN 2 ELSE 3

\* the last day of the discount and of the face window of the explored
\* issue dates, from the calendar
LastDiscountDay(issue_date) ==
    IF issue_date = 20250301 THEN 20250430
    ELSE IF issue_date = 20250701 THEN 20250831
    ELSE IF issue_date = 20241231 THEN 20250227
    ELSE 20251231
LastFaceDay(issue_date) ==
    IF issue_date = 20250301 THEN 20250630
    ELSE IF issue_date = 20250701 THEN 20251031
    ELSE IF issue_date = 20241231 THEN 20250429
    ELSE 20260228

\* C15: determine_period(d, i) returned DISCOUNT iff d <= i + 2 months - 1
\* day, FACE iff d is after that day and <= i + 4 months - 1 day, PENALTY
\* iff d is after that; exactly one of the three; and every later postmark
\* date gives the same or a later period.  For the issue date 2025-03-01,
\* 2025-04-30 is DISCOUNT, 2025-05-01 FACE and 2025-07-01 PENALTY.
C15_PeriodWindows ==
    calc_call.op = "determine_period"
    => LET d == calc_call.postmark
           i == calc_call.issue_date
       IN  /\ LastDiscountDay(i) = MinusOneDay(AddMonths(i, 2))
           /\ LastFaceDay(i) = MinusOneDay(AddMonths(i, 4))
           /\ calc_result \in {"DISCOUNT", "FACE", "PENALTY"}
           /\ (calc_result = "DISCOUNT") <=> (d <= LastDiscountDay(i))
           /\ (calc_result = "FACE") <=> (LastDiscountDay(i) < d /\ d <= LastFaceDay(i))
           /\ (calc_result = "PENALTY") <=> (LastFaceDay(i) < d)
           /\ \A later \in Postmarks :
                 d <= later
                 => PeriodRank(calc_result) <= PeriodRank(determine_period(later, i))
           /\ (i = 20250301 /\ d = 20250430) => calc_result = "DISCOUNT"
           /\ (i = 20250301 /\ d = 20250501) => calc_result = "FACE"
           /\ (i = 20250301 /\ d = 20250701) => calc_result = "PENALTY"

\* C15 witness: the call for the bill issued on 2024-12-31 and a postmark
\* of 2025-02-28, the day after its discount window, returned FACE.
C15_Witness ==
    /\ calc_call.op = "determine_period"
    /\ calc_call.issue_date = 20241231
    /\ calc_call.postmark = 20250228
    /\ calc_result = "FACE"

\* the call made was validate_payment
Validated == calc_call.op = "validate_payment"

\* the period of the postmark date of the call, for the bill of 2025-03-01
\* all explored records carry: its windows end on 2025-04-30 and 2025-06-30
CallPeriod ==
    IF calc_call.postmark <= 20250430 THEN "DISCOUNT"
    ELSE IF calc_call.postmark <= 20250630 THEN "FACE"
    ELSE "PENALTY"

\* the parcel's amount for the period of the call
CallExpected ==
    IF CallPeriod = "DISCOUNT" THEN calc_call.duplicate_record.discount_amount
    ELSE IF CallPeriod = "FACE" THEN calc_call.duplicate_record.face_tax_amount
    ELSE calc_call.duplicate_record.penalty_amount

\* the amounts are equal to the cent: their difference rounds to 0.00
SameCents(a, b) == 10 * ((Abs(a - b) + 5) \div 10) = 0

\* the tender of the call is an exact full payment
ExactFull == SameCents(calc_call.amount_tendered, CallExpected)

\* C16: validate_payment accepted with ACCEPTED_FULL every tender equal to
\* the cent to the parcel's amount for the period of the postmark date
\* (discount amount in DISCOUNT, face in FACE, penalty in PENALTY), whatever
\* the installment plan and the installment number.
C16_ExactFullAccepted ==
    (Validated /\ ExactFull)
    => /\ calc_result.is_valid
       /\ calc_result.code = "ACCEPTED_FULL"

\* C16 witness: the penalty amount tendered in the PENALTY period for a
\* parcel on the installment plan, with no installment number given, was
\* accepted as a full payment.
C16_Witness ==
    /\ Validated
    /\ calc_call.duplicate_record.is_installment_plan = 1
    /\ calc_call.amount_tendered = 495000
    /\ calc_call.postmark = 20251215
    /\ calc_call.installment_num = NoInstallment
    /\ calc_result.code = "ACCEPTED_FULL"

\* the parcel of the call is on the installment plan
CallOnPlan == calc_call.duplicate_record.is_installment_plan = 1

\* a third of the face amount of the call's parcel, to the cent, and that
\* third with the 10% penalty, to the cent
CallInstallment == 10 * ((calc_call.duplicate_record.face_tax_amount + 15) \div 30)
CallInstallmentPenalty == 10 * ((((CallInstallment * 11) \div 10) + 5) \div 10)

\* the call is in the PENALTY period with the installment number unset or 1
CallLateFirstInstallment ==
    /\ CallPeriod = "PENALTY"
    /\ calc_call.installment_num \in {NoInstallment, 1}

\* C17: for a parcel on the installment plan and a tender that is not an
\* exact full payment, validate_payment rejected every call in the PENALTY
\* period with the installment number unset or 1 with
\* REJECTED_INSTALLMENT_LATE, whatever the amount.
C17_LateInstallmentRejected ==
    (Validated /\ CallOnPlan /\ ~ExactFull /\ CallLateFirstInstallment)
    => /\ ~calc_result.is_valid
       /\ calc_result.code = "REJECTED_INSTALLMENT_LATE"

\* C17 witness: the installment amount tendered as installment 1 in the
\* PENALTY period was rejected as late.
C17_Witness ==
    /\ Validated
    /\ CallOnPlan
    /\ calc_call.amount_tendered = 150000
    /\ calc_call.postmark = 20250701
    /\ calc_call.installment_num = 1
    /\ calc_result.code = "REJECTED_INSTALLMENT_LATE"

\* the tender of the call is the installment amount, in DISCOUNT or FACE, or
\* in PENALTY as installment 2 or 3
InstallmentTendered ==
    /\ SameCents(calc_call.amount_tendered, CallInstallment)
    /\ \/ CallPeriod \in {"DISCOUNT", "FACE"}
       \/ calc_call.installment_num \in {2, 3}

\* C18 as stated: for a parcel on the plan every tender of
\* round(face / 3, 2), in DISCOUNT or FACE with any installment number or in
\* PENALTY with installment number 2 or 3, was accepted with
\* ACCEPTED_INSTALLMENT; for a parcel not on the plan no tender was accepted
\* as an installment.
C18_InstallmentAccepted ==
    Validated
    => /\ (CallOnPlan /\ InstallmentTendered)
          => (calc_result.is_valid /\ calc_result.code = "ACCEPTED_INSTALLMENT")
       /\ ~CallOnPlan
          => calc_result.code \notin {"ACCEPTED_INSTALLMENT",
                                     "ACCEPTED_INSTALLMENT_PENALTY"}

\* C18 amended: the same for the tenders that are not also an exact full
\* payment of the period; one that is was accepted with ACCEPTED_FULL.
C18_InstallmentAcceptedUnlessFull ==
    Validated
    => /\ (CallOnPlan /\ InstallmentTendered /\ ~ExactFull)
          => (calc_result.is_valid /\ calc_result.code = "ACCEPTED_INSTALLMENT")
       /\ (CallOnPlan /\ InstallmentTendered /\ ExactFull)
          => (calc_result.is_valid /\ calc_result.code = "ACCEPTED_FULL")
       /\ ~CallOnPlan
          => calc_result.code \notin {"ACCEPTED_INSTALLMENT",
                                     "ACCEPTED_INSTALLMENT_PENALTY"}

\* C18 witness: a third of the face amount tendered as installment 2 in the
\* PENALTY period was accepted as an installment.
C18_Witness ==
    /\ Validated
    /\ CallOnPlan
    /\ calc_call.duplicate_record.face_tax_amount = 450000
    /\ calc_call.amount_tendered = 150000
    /\ calc_call.postmark = 20251215
    /\ calc_call.installment_num = 2
    /\ calc_result.code = "ACCEPTED_INSTALLMENT"

\* neither an acceptance rule nor the late-installment rejection applies
NoRuleApplies ==
    /\ ~ExactFull
    /\ CallOnPlan
       => /\ ~CallLateFirstInstallment
          /\ ~SameCents(calc_call.amount_tendered, CallInstallment)
          /\ ~SameCents(calc_call.amount_tendered, CallInstallmentPenalty)

\* |a - b| to the cent
CentsApart(a, b) == 10 * ((Abs(a - b) + 5) \div 10)

\* C19: when no rule applies validate_payment rejected the tender with
\* REJECTED_OVER and the overage when it exceeds the full amount of the
\* period, else with REJECTED_UNDER and the shortfall; for a parcel not on
\* the plan the tender was accepted iff it is an exact full payment (440.99
\* against 441.00: REJECTED_UNDER, 0.01 short).
C19_OverUnderRejected ==
    Validated
    => /\ NoRuleApplies
          => /\ ~calc_result.is_valid
             /\ calc_result.code =
                   IF calc_call.amount_tendered > CallExpected
                   THEN "REJECTED_OVER" ELSE "REJECTED_UNDER"
             /\ calc_result.diff = CentsApart(calc_call.amount_tendered, CallExpected)
       /\ ~CallOnPlan => (calc_result.is_valid <=> ExactFull)
       /\ ( /\ calc_call.amount_tendered = 440990
            /\ CallExpected = 441000 )
          => (calc_result.code = "REJECTED_UNDER" /\ calc_result.diff = 10)

\* C19 witness: 500.00 tendered in the FACE period for a parcel not on the
\* plan was rejected as 50.00 over.
C19_Witness ==
    /\ Validated
    /\ ~CallOnPlan
    /\ calc_call.amount_tendered = 500000
    /\ calc_call.postmark = 20250601
    /\ calc_result.code = "REJECTED_OVER"
    /\ calc_result.diff = 50000

\* validate_payment on the arguments of the call made
ValidatedAgain ==
    validate_payment(calc_call.duplicate_record, calc_call.amount_tendered,
                     calc_call.postmark, calc_call.installment_num)

UnknownTxIds == {0, Len(transactions) + 1}

\* the command left the three tables as they were
LeftUnchanged(r) ==
    /\ r.transactions = transactions
    /\ r.tax_duplicate = tax_duplicate
    /\ r.change_log = change_log

\* C21: in every reachable state an NSF reversal given a transaction id the
\* ledger does not hold fails with the not-found error and leaves the
\* transactions, every parcel and the audit log as they were.
C21_NsfUnknownIdRefused ==
    \A t \in UnknownTxIds, now \in NowDates :
        /\ ~process_nsf_reversal(t, now).ok
        /\ process_nsf_reversal(t, now).error = "TRANSACTION_NOT_FOUND"
        /\ LeftUnchanged(nsf(t, now))

\* C21 witness: a ledger with a row of a parcel that is not UNPAID, and an
\* audit trail, which the reversal of an unknown id leaves as they are.
C21_Witness ==
    /\ change_log # << >>
    /\ \E t \in TxIds :
          /\ transactions[t].parcel_id \in Parcels
          /\ tax_duplicate[transactions[t].parcel_id].status # "UNPAID"
    /\ \E t \in UnknownTxIds, now \in NowDates :
          /\ ~process_nsf_reversal(t, now).ok
          /\ LeftUnchanged(nsf(t, now))

\* the add-interim runs looked at: the explored ones, and one naming the
\* imported parcel with other owner data and amounts
InterimTries ==
    InterimArgs \cup
    { [parcel_id |-> "P1", owner_name |-> "Other Owner", mailing_address |-> "9 Other Rd",
       face_tax_amount |-> 300000, discount_amount |-> 294000, penalty_amount |-> 330000,
       bill_issue_date |-> 20250701] }

\* C22: in every reachable state add-interim with a parcel id the duplicate
\* does not hold inserts that one parcel, UNPAID, flagged interim, with the
\* face, discount and penalty amounts given, and changes nothing else;
\* with a parcel id it holds it fails with the duplicate error and leaves
\* that parcel and everything else as they were.
C22_InterimAddOnce ==
    \A args \in InterimTries :
        LET r == add_interim_parcel(args)
            c == add_interim(args)
            id == args.parcel_id
        IN  IF id \notin Parcels
            THEN /\ r.ok
                 /\ DOMAIN c.tax_duplicate = Parcels \cup {id}
                 /\ c.tax_duplicate[id].status = "UNPAID"
                 /\ c.tax_duplicate[id].is_interim = 1
                 /\ c.tax_duplicate[id].face_tax_amount = args.face_tax_amount
                 /\ c.tax_duplicate[id].discount_amount = args.discount_amount
                 /\ c.tax_duplicate[id].penalty_amount = args.penalty_amount
                 /\ \A p \in Parcels : c.tax_duplicate[p] = tax_duplicate[p]
                 /\ c.transactions = transactions
                 /\ c.change_log = change_log
            ELSE /\ ~r.ok
                 /\ r.error = "PARCEL_EXISTS"
                 /\ LeftUnchanged(c)

\* C22 witness: the interim parcel was added, has since left UNPAID, and a
\* second add-interim of its id is refused.
C22_Witness ==
    \E args \in InterimArgs :
        /\ args.parcel_id \in Parcels
        /\ tax_duplicate[args.parcel_id].is_interim = 1
        /\ tax_duplicate[args.parcel_id].face_tax_amount = args.face_tax_amount
        /\ tax_duplicate[args.parcel_id].status # "UNPAID"
        /\ ~add_interim_parcel(args).ok

\* the parcel with its owner name and mailing address left out
Unowned(parcel) == [parcel EXCEPT !.owner_name = "", !.mailing_address = ""]

\* the audit entries of log past those of the audit trail
EntriesAdded(log) == {k \in (Len(change_log) + 1)..Len(log) : TRUE}

\* C23: in every reachable state update-parcel changes nothing but the owner
\* name and mailing address of the parcel it names (no status, no billed
\* amount, no transaction), and adds to the audit trail exactly one entry
\* for each of the two fields whose value it changes, none for a field it
\* leaves at its old value.
C23_OwnerCorrectionAudited ==
    \A p \in ParcelIds, name \in OwnerNames, address \in Addresses :
        LET c == update_parcel(p, name, address)
        IN  /\ c.transactions = transactions
            /\ DOMAIN c.tax_duplicate = Parcels
            /\ \A q \in Parcels :
                  /\ Unowned(c.tax_duplicate[q]) = Unowned(tax_duplicate[q])
                  /\ q # p => c.tax_duplicate[q] = tax_duplicate[q]
            /\ SubSeq(c.change_log, 1, Len(change_log)) = change_log
            /\ \A k \in EntriesAdded(c.change_log) :
                  /\ c.change_log[k].record_id = p
                  /\ c.change_log[k].field_name \in {"owner_name", "mailing_address"}
            /\ \A f \in {"owner_name", "mailing_address"} :
                  Cardinality({k \in EntriesAdded(c.change_log) :
                                  c.change_log[k].field_name = f})
                  = IF p \in Parcels /\ c.tax_duplicate[p][f] # tax_duplicate[p][f]
                    THEN 1 ELSE 0

\* the command aborted: the tables are as they were, and the exit status is
\* not that of a success
FatalFailure(c) ==
    /\ LeftUnchanged(c)
    /\ c.exit_status # 0

\* the month of the date holds a closed row
MonthClosed(date) == MonthHasClosedRow(Year(date), Month(date))

\* C24: in every reachable state each ledger operation that fails for a
\* reason other than a validation rejection (an accepted pay or an exonerate
\* dated in a closed month, nsf of an unknown transaction id, update-parcel
\* of an unknown parcel, add-interim of an existing parcel id) leaves no
\* partial change behind and ends as a fatal command failure, with an exit
\* status other than success.
C24_FailureIsFatal ==
    /\ \A run \in PayRuns :
          (Valid(run).is_valid /\ MonthClosed(run.date)) => FatalFailure(PayOf(run))
    /\ \A p \in ParcelIds, a \in ExonerateAmounts, d \in ExonerateDates :
          MonthClosed(d) => FatalFailure(exonerate(p, a, d))
    /\ \A t \in UnknownTxIds, now \in NowDates : FatalFailure(nsf(t, now))
    /\ \A p \in ParcelIds \ Parcels, name \in OwnerNames \ {"NULL"} :
          FatalFailure(update_parcel(p, name, "NULL"))
    /\ \A args \in InterimTries :
          args.parcel_id \in Parcels => FatalFailure(add_interim(args))

\* C25: every command takes, before it writes, a backup of the database as
\* it then is, and after the backup at most 5 backups are kept, those taken
\* last.
C25_BackupsMostRecent ==
    [][clock' # clock
       => /\ \E f \in backups' : f.name = clock' /\ f.mtime = db_mtime
          /\ Cardinality(backups') <= KeptBackups
          /\ {f.name : f \in backups'}
                = {n \in 1..clock' : n > clock' - KeptBackups}]_vars

\* C26: in every reachable state close-month of a month sets the closed flag
\* on the rows dated in that calendar month (December included) that are not
\* closed yet, whatever their type, and changes no other field, no row of
\* another month, no parcel and no audit entry.
C26_CloseExactlyTheMonth ==
    \A my \in CloseMonths :
        LET c == close_month_command(my[1], my[2])
        IN  /\ Len(c.transactions) = Len(transactions)
            /\ \A i \in TxIds :
                  /\ Unflagged(c.transactions[i]) = Unflagged(transactions[i])
                  /\ c.transactions[i].is_closed =
                        IF MonthOf(transactions[i]) = my THEN 1
                        ELSE transactions[i].is_closed
            /\ close_month(transactions, my[1], my[2]).count =
                  Cardinality({i \in TxIds : /\ MonthOf(transactions[i]) = my
                                             /\ transactions[i].is_closed = 0})
            /\ c.tax_duplicate = tax_duplicate
            /\ c.change_log = change_log

\* C26 witness: December has been closed over a row that is no accepted
\* payment, while a row of another month is still open.
C26_Witness ==
    \E i, j \in TxIds :
        /\ transactions[i].is_closed = 1
        /\ Month(transactions[i].date_received) = 12
        /\ transactions[i].transaction_type \in {"REJECTED_PAYMENT", "NSF_REVERSAL"}
        /\ transactions[j].is_closed = 0
        /\ Month(transactions[j].date_received) # 12
        /\ close_month_command(12, 2025).transactions = transactions

\* the table txs holds a closed row of the month of the date
ClosedRowIn(txs, date) ==
    \E i \in 1..Len(txs) :
        /\ Year(txs[i].date_received) = Year(date)
        /\ Month(txs[i].date_received) = Month(date)
        /\ txs[i].is_closed = 1

\* the tables t after add_transaction(data) run on its own
Appended(t, data) ==
    IF MonthCheckApplies(data) /\ ClosedRowIn(t.transactions, data.date_received)
    THEN t
    ELSE LET new_status == DerivedStatus(data)
             upd == IF new_status # ""
                    THEN update_parcel_status(t.tax_duplicate, t.change_log,
                                              data.parcel_id, new_status)
                    ELSE [dup |-> t.tax_duplicate, log |-> t.change_log]
         IN  [tax_duplicate |-> upd.dup,
              transactions |->
                  Append(t.transactions,
                         [InsertedRow(data) EXCEPT
                             !.transaction_id = Len(t.transactions) + 1]),
              change_log |-> upd.log]

\* the tables t after close_month(month, year) run on its own
Closed(t, month, year) ==
    [t EXCEPT !.transactions = close_month(t.transactions, month, year).transactions]

\* what the two callers leave when one runs after the other
SerialOutcomes ==
    { Closed(Appended(race.before, race.data), race.month, race.year),
      Appended(Closed(race.before, race.month, race.year), race.data) }

\* both callers are through
CallersDone ==
    /\ race.phase = "running"
    /\ race.append \in {"done", "failed"}
    /\ race.close = "done"

\* C27: when an append of a PAYMENT dated in month M and close(M) run at
\* once, every interleaving of their steps leaves the tables as one of the
\* two serial orders would: the row inserted and then closed, or the month
\* closed and the append (run after it) as it ends on its own.
C27_Serializable ==
    CallersDone
    => [tax_duplicate |-> tax_duplicate, transactions |-> transactions,
        change_log |-> change_log] \in SerialOutcomes

\* the ledger holds a reversal of row t after it
AlreadyReversed(t) ==
    \E j \in TxIds :
        /\ j > t
        /\ transactions[j].transaction_type = "NSF_REVERSAL"
        /\ transactions[j].parcel_id = transactions[t].parcel_id
        /\ transactions[j].check_number = transactions[t].check_number
        /\ transactions[j].amount_paid = -transactions[t].amount_paid

\* C28: in every reachable state an NSF reversal given the id of a row that
\* is not a PAYMENT, or of a PAYMENT already reversed, inserts no row and
\* changes no parcel; and a reversal never inserts a row dated in a month
\* that holds closed rows.
C28_NsfOnlyOfPaymentOnce ==
    \A t \in TxIds, now \in NowDates :
        LET c == nsf(t, now)
        IN  /\ ( \/ transactions[t].transaction_type # "PAYMENT"
                 \/ AlreadyReversed(t) )
               => /\ c.transactions = transactions
                  /\ c.tax_duplicate = tax_duplicate
            /\ MonthClosed(now) => c.transactions = transactions

\* C29: every row of the ledger, and every status entry of the audit trail,
\* is for a parcel the duplicate holds: no append, that of the exonerate
\* command included, inserts a row or writes a status entry for a parcel id
\* that is not present.
C29_RowsReferenceParcels ==
    /\ \A i \in TxIds : transactions[i].parcel_id \in Parcels
    /\ \A k \in 1..Len(change_log) :
          ( /\ change_log[k].table_name = "tax_duplicate"
            /\ change_log[k].field_name = "status" )
          => change_log[k].record_id \in Parcels

\* row i is an exact full payment of its parcel, recorded with the period
\* its postmark date determines
FullPaymentRow(i) ==
    LET row == transactions[i]
        parcel == tax_duplicate[row.parcel_id]
    IN  /\ row.transaction_type = "PAYMENT"
        /\ row.payment_period = determine_period(row.postmark_date, parcel.bill_issue_date)
        /\ SameCents(row.amount_paid, get_expected_amount(row.payment_period, parcel))

\* the ledger of a sequence of imports, interim adds, rejected payments and
\* at most one exact full payment per parcel, every parcel billed with
\* discount <= face <= penalty
FullPaymentsOnly ==
    /\ \A p \in Parcels :
          /\ tax_duplicate[p].discount_amount <= tax_duplicate[p].face_tax_amount
          /\ tax_duplicate[p].face_tax_amount <= tax_duplicate[p].penalty_amount
    /\ \A i \in TxIds :
          /\ transactions[i].parcel_id \in Parcels
          /\ \/ transactions[i].transaction_type = "REJECTED_PAYMENT"
             \/ FullPaymentRow(i)
    /\ \A i, j \in TxIds :
          ( /\ transactions[i].transaction_type = "PAYMENT"
            /\ transactions[j].transaction_type = "PAYMENT"
            /\ transactions[i].parcel_id = transactions[j].parcel_id )
          => i = j

\* C30: after every step of a sequence made only of first-time imports,
\* interim adds, rejected payments and at most one exact full payment per
\* parcel, the settlement balance charges - credits is exactly 0.
C30_FullPaymentsBalance ==
    FullPaymentsOnly => diff = 0

====
